---- MODULE Spec2Model ----
(***************************************************************************)
(* Region detection (findRegions, floodFill, getBoundingBox,               *)
(* filterOverlappingRegions, calculateOverlap) and the bounded frame queue *)
(* (FrameQueue.enqueue, FrameQueue.processQueue) of the RTSP licence plate *)
(* reader.                                                                 *)
(*                                                                         *)
(* Two implementations of the region utilities live in the repository:     *)
(*   "regionUtils"      src/src/utils/regionUtils.ts  (keep-first filter)  *)
(*   "imageProcessing"  src/unnamed/part_004          (all-pairs filter,   *)
(*                                                     confidence field)   *)
(* The variable `variant` says which one a behaviour runs.                 *)
(***************************************************************************)
EXTENDS Integers, Sequences, FiniteSets, TLC

VARIABLES
    variant,    \* which implementation of the region utilities runs
    data,       \* the pixel mask: a function 0..width*height-1 -> byte
    width,      \* mask width
    height,     \* mask height
    config,     \* DetectionConfig
    pc,         \* position of the running call
    scanPos,    \* findRegions: y*width + x of the raster scan
    visited,    \* findRegions: the visited set shared with floodFill
    seed,       \* floodFill: the linear index of the seed (x, y)
    visited0,   \* floodFill: the visited set as it was when the call began
    stack,      \* floodFill: the explicit stack of {x, y}
    region,     \* floodFill: the positions collected so far
    regions,    \* findRegions: accepted bounding boxes / the filter's input
    result,     \* the value returned by findRegions / filterOverlappingRegions
    returned,   \* the values the findRegions calls on this mask have returned
    maxSize,         \* FrameQueue.maxSize
    queue,           \* FrameQueue.queue: the pending packets, oldest first
    processing,      \* FrameQueue.processing
    isShuttingDown,  \* cleanup.ts isShuttingDown
    cleanupCalls,    \* calls of cleanup() so far
    teardowns,       \* calls of cleanup() that went past its first line
    enqueueCalls,    \* calls of enqueue so far; call k carries packet k
    inFlight,        \* packets whose processFrame call has not settled
    immediates,      \* pending setImmediate(() => this.processQueue())
    handed,          \* packets passed to processFrame, in the order passed
    evicted,         \* packets dropped by "Discarding oldest frame"
    warnings,        \* calls of logger.warn by enqueue
    failed,          \* packets whose processFrame call rejected
    pendingAtFail,   \* packets that were pending when a processFrame call rejected
    retries,         \* startStreamProcessing: retries
    attempt,         \* startStreamProcessing: attempt
    timers,          \* pending setTimeout(processStream, delay)
    streamLive,      \* the ffmpeg stream of the last connection can still emit
    connects,        \* connections made: calls of ffmpeg(CONFIG.RTSP_URL)
    ends,            \* 'end' events received
    exitCode,        \* the code passed to process.exit, -1 while the process runs
    maxRetries,      \* StreamProcessor.maxRetries
    retryCount,      \* StreamProcessor.retryCount
    reconnects,      \* pending setTimeout callbacks of handleStreamError
    commands,        \* the ffmpeg commands connectStream has made, with their streams
    command,         \* StreamProcessor.command: its index in commands, 0 for null
    failures,        \* calls of handleStreamError so far
    processorExit    \* the code StreamProcessor passed to process.exit, -1 if none

regionVars == <<variant, data, width, height, config, pc, scanPos, visited,
                seed, visited0, stack, region, regions, result, returned>>

queueVars == <<maxSize, queue, processing, isShuttingDown, cleanupCalls, teardowns,
               enqueueCalls, inFlight,
               immediates, handed, evicted, warnings, failed, pendingAtFail>>

streamVars == <<retries, attempt, timers, streamLive, connects, ends, exitCode>>

processorVars == <<maxRetries, retryCount, reconnects, commands, command, failures,
                   processorExit>>

vars == <<regionVars, queueVars, streamVars, processorVars>>

-----------------------------------------------------------------------------
(* Bounds of the model *)

MaxW == 3
MaxH == 2
MaxFrame == 2
MaxRegions == 2
MaxQueueSize == 2
MaxPackets == 4
\* findRegions calls made on one mask
MaxCalls == 2
\* the largest `retries` passed to startStreamProcessing
MaxRetries == 3
\* 'end' events followed
MaxEnds == 2
\* calls of cleanup() followed
MaxCleanups == 3
\* calls of StreamProcessor.handleStreamError followed
MaxFailures == 3

-----------------------------------------------------------------------------
(* IEEE-754 doubles as the code uses them: a quotient of two non-negative
   integers is kept as numerator and denominator.  d = 0 with n = 0 is NaN,
   d = 0 with n > 0 is +Infinity. *)

DivZeroByZeroIsZero(a, b) == IF a = 0 /\ b = 0 THEN [n |-> 0, d |-> 1] ELSE [n |-> a, d |-> b]

\* a / b
Div(a, b) == [n |-> a, d |-> b]

Num(a) == [n |-> a, d |-> 1]

IsNaN(q) == q.n = 0 /\ q.d = 0

\* q >= r, false when either side is NaN
Geq(q, r) == ~IsNaN(q) /\ ~IsNaN(r) /\ q.n * r.d >= r.n * q.d

\* q <= r, false when either side is NaN
Leq(q, r) == ~IsNaN(q) /\ ~IsNaN(r) /\ q.n * r.d <= r.n * q.d

\* q > r, false when either side is NaN
Gt(q, r) == ~IsNaN(q) /\ ~IsNaN(r) /\ q.n * r.d > r.n * q.d

Min(a, b) == IF a <= b THEN a ELSE b

Max(a, b) == IF a >= b THEN a ELSE b

SetMin(S) == CHOOSE m \in S : \A e \in S : m <= e

SetMax(S) == CHOOSE m \in S : \A e \in S : m >= e

Range(s) == {s[i] : i \in 1..Len(s)}

-----------------------------------------------------------------------------
(* floodFill *)

\* data[pos]; a Buffer read outside 0..length-1 yields undefined, written -1
\* here: a value that is no byte and is !== 0
DataAt(pos) == IF pos \in DOMAIN data THEN data[pos] ELSE -1

\* const pos = currentY * width + currentX
PosOf(c) == c.y * width + c.x

OutOfBoundsNoRight(c) == c.x < 0 \/ c.y < 0 \/ c.y >= height

\* currentX < 0 || currentX >= width || currentY < 0 || currentY >= height
OutOfBounds(c) == c.x < 0 \/ c.x >= width \/ c.y < 0 \/ c.y >= height

DiscardedIgnoringVisited(c) == OutOfBounds(c) \/ DataAt(PosOf(c)) # 0

\* the whole condition under which a popped coordinate is dropped
Discarded(c) ==
    \/ OutOfBounds(c)
    \/ PosOf(c) \in visited
    \/ DataAt(PosOf(c)) # 0

\* the four coordinates pushed, in the order of the push
Neighbours(c) ==
    << [x |-> c.x + 1, y |-> c.y], [x |-> c.x - 1, y |-> c.y],
       [x |-> c.x, y |-> c.y + 1], [x |-> c.x, y |-> c.y - 1] >>

Top == stack[Len(stack)]

Popped == SubSeq(stack, 1, Len(stack) - 1)

\* a popped coordinate that is out of bounds, visited or background: continue
FloodDiscard ==
    /\ pc = "flood"
    /\ stack # <<>>
    /\ Discarded(Top)
    /\ stack' = Popped
    /\ UNCHANGED <<queueVars, streamVars, processorVars, returned, variant, data, width, height, config, pc,
                   scanPos, visited, seed, visited0, region, regions, result>>

MaskMarked(d, pos) == [d EXCEPT ![pos] = 255]

\* the mask after a pixel is taken: visited.add(pos) and region.push(pos)
\* record it, data[pos] is read and never assigned
MaskAfterVisit(d, pos) == d

\* a popped foreground coordinate: mark, collect, push the four neighbours
FloodVisit ==
    /\ pc = "flood"
    /\ stack # <<>>
    /\ ~Discarded(Top)
    /\ visited' = visited \cup {PosOf(Top)}
    /\ region' = Append(region, PosOf(Top))
    /\ stack' = Popped \o Neighbours(Top)
    /\ data' = MaskAfterVisit(data, PosOf(Top))
    /\ UNCHANGED <<queueVars, streamVars, processorVars, returned, variant, width, height, config, pc,
                   scanPos, seed, visited0, regions, result>>

\* the stack is empty: return region
FloodReturn ==
    /\ pc = "flood"
    /\ stack = <<>>
    /\ pc' = "filled"
    /\ UNCHANGED <<queueVars, streamVars, processorVars, returned, variant, data, width, height, config, scanPos,
                   visited, seed, visited0, stack, region, regions, result>>

-----------------------------------------------------------------------------
(* getBoundingBox, calculateOverlap, filterOverlappingRegions *)

getBoundingBoxInclusive(reg, w) ==
    LET xs == {p % w : p \in reg}
        ys == {p \div w : p \in reg}
    IN  [x |-> SetMin(xs), y |-> SetMin(ys),
         width |-> SetMax(xs) - SetMin(xs) + 1,
         height |-> SetMax(ys) - SetMin(ys) + 1]

\* x = pos % width, y = floor(pos / width); min and max over the positions
getBoundingBox(reg, w) ==
    LET xs == {p % w : p \in reg}
        ys == {p \div w : p \in reg}
    IN  [x |-> SetMin(xs), y |-> SetMin(ys),
         width |-> SetMax(xs) - SetMin(xs),
         height |-> SetMax(ys) - SetMin(ys)]

calculateOverlapOfFirst(r1, r2) ==
    LET xOverlap == Max(0, Min(r1.x + r1.width, r2.x + r2.width) - Max(r1.x, r2.x))
        yOverlap == Max(0, Min(r1.y + r1.height, r2.y + r2.height) - Max(r1.y, r2.y))
    IN  Div(xOverlap * yOverlap, r1.width * r1.height)

calculateOverlap(r1, r2) ==
    LET xOverlap == Max(0, Min(r1.x + r1.width, r2.x + r2.width) - Max(r1.x, r2.x))
        yOverlap == Max(0, Min(r1.y + r1.height, r2.y + r2.height) - Max(r1.y, r2.y))
        overlapArea == xOverlap * yOverlap
        r1Area == r1.width * r1.height
        r2Area == r2.width * r2.height
    IN  Div(overlapArea, Min(r1Area, r2Area))

OverThresholdOfOne(r1, r2) == Gt(calculateOverlap(r1, r2), Num(1))

\* overlap > 0.5
OverThreshold(r1, r2) == Gt(calculateOverlap(r1, r2), Div(1, 2))

RECURSIVE KeepFirstFrom(_, _, _)
\* regionUtils.ts: the loop over i, with `filtered` as built so far
KeepFirstFrom(rs, i, filtered) ==
    IF i > Len(rs) THEN filtered
    ELSE LET overlapping ==
                 \E j \in 1..Len(filtered) : OverThreshold(rs[i], filtered[j])
         IN  KeepFirstFrom(rs, i + 1,
                 IF overlapping THEN filtered ELSE Append(filtered, rs[i]))

filterKeepFirstNewestFirst(rs) ==
    LET kept == KeepFirstFrom(rs, 1, <<>>)
    IN  [i \in 1..Len(kept) |-> kept[Len(kept) + 1 - i]]

\* regionUtils.ts filterOverlappingRegions
filterKeepFirst(rs) == KeepFirstFrom(rs, 1, <<>>)

AllPairsKeepsAgainstLater(rs, index) ==
    ~ \E i \in 1..Len(rs) : i > index /\ OverThreshold(rs[index], rs[i])

AllPairsKeepsSelfCompared(rs, index) ==
    ~ \E i \in 1..Len(rs) : OverThreshold(rs[index], rs[i])

\* part_004: the callback of regions.filter for the element at `index`
AllPairsKeeps(rs, index) ==
    ~ \E i \in 1..Len(rs) : i # index /\ OverThreshold(rs[index], rs[i])

RECURSIVE AllPairsFrom(_, _)
AllPairsFrom(rs, index) ==
    IF index > Len(rs) THEN <<>>
    ELSE (IF AllPairsKeeps(rs, index) THEN <<rs[index]>> ELSE <<>>)
         \o AllPairsFrom(rs, index + 1)

\* part_004 filterOverlappingRegions
filterAllPairs(rs) == AllPairsFrom(rs, 1)

filterOverlappingRegions(v, rs) ==
    IF v = "regionUtils" THEN filterKeepFirst(rs) ELSE filterAllPairs(rs)

-----------------------------------------------------------------------------
(* findRegions *)

Variants == {"regionUtils", "imageProcessing"}

\* the test's thresholds, a permissive profile, a tight one and a zero one
Configs ==
    { [minArea |-> 1, maxArea |-> 10, minAspectRatio |-> Div(1, 2), maxAspectRatio |-> Num(2)],
      [minArea |-> 0, maxArea |-> 10, minAspectRatio |-> Num(0),    maxAspectRatio |-> Num(2)],
      [minArea |-> 1, maxArea |-> 1,  minAspectRatio |-> Div(1, 2), maxAspectRatio |-> Num(2)],
      [minArea |-> 0, maxArea |-> 0,  minAspectRatio |-> Num(0),    maxAspectRatio |-> Num(2)] }

Masks(w, h) == [0..(w * h - 1) -> {0, 255}]

AcceptedNoCeiling(bounds, cfg) ==
    LET aspectRatio == Div(bounds.width, bounds.height)
        area == bounds.width * bounds.height
    IN  /\ area >= cfg.minArea
        /\ Geq(aspectRatio, cfg.minAspectRatio)
        /\ Leq(aspectRatio, cfg.maxAspectRatio)

\* area >= minArea && area <= maxArea && aspectRatio >= min && aspectRatio <= max
Accepted(bounds, cfg) ==
    LET aspectRatio == Div(bounds.width, bounds.height)
        area == bounds.width * bounds.height
    IN  /\ area >= cfg.minArea
        /\ area <= cfg.maxArea
        /\ Geq(aspectRatio, cfg.minAspectRatio)
        /\ Leq(aspectRatio, cfg.maxAspectRatio)

PushedUnscaled(v, bounds, cfg) ==
    IF v = "regionUtils" THEN bounds
    ELSE [x |-> bounds.x, y |-> bounds.y, width |-> bounds.width,
          height |-> bounds.height,
          confidence |-> Div(bounds.width * bounds.height, cfg.maxArea)]

\* the record pushed: part_004 sets confidence = (area / maxArea) * 100
Pushed(v, bounds, cfg) ==
    IF v = "regionUtils" THEN bounds
    ELSE [x |-> bounds.x, y |-> bounds.y, width |-> bounds.width,
          height |-> bounds.height,
          confidence |-> Div(bounds.width * bounds.height * 100, cfg.maxArea)]

Unshift(rs, r) == <<r>> \o rs

\* regions.push(bounds)
Push(rs, r) == Append(rs, r)

ScanDone == scanPos >= width * height

StartsComponent == DataAt(scanPos) = 0 /\ scanPos \notin visited

\* the pixel is background or already visited: next x
ScanSkip ==
    /\ pc = "scan"
    /\ ~ScanDone
    /\ ~StartsComponent
    /\ scanPos' = scanPos + 1
    /\ UNCHANGED <<queueVars, streamVars, processorVars, returned, variant, data, width, height, config, pc,
                   visited, seed, visited0, stack, region, regions, result>>

\* an unvisited foreground pixel: call floodFill(data, width, height, x, y, visited)
ScanFlood ==
    /\ pc = "scan"
    /\ ~ScanDone
    /\ StartsComponent
    /\ seed' = scanPos
    /\ visited0' = visited
    /\ stack' = << [x |-> scanPos % width, y |-> scanPos \div width] >>
    /\ region' = <<>>
    /\ pc' = "flood"
    /\ UNCHANGED <<queueVars, streamVars, processorVars, returned, variant, data, width, height, config, scanPos,
                   visited, regions, result>>

\* floodFill returned: bounding box, thresholds, push; next x
ScanCollect ==
    /\ pc = "filled"
    /\ LET bounds == getBoundingBox(Range(region), width)
       IN  regions' = IF Accepted(bounds, config)
                      THEN Push(regions, Pushed(variant, bounds, config))
                      ELSE regions
    /\ scanPos' = scanPos + 1
    /\ pc' = "scan"
    /\ UNCHANGED <<queueVars, streamVars, processorVars, returned, variant, data, width, height, config, visited,
                   seed, visited0, stack, region, result>>

\* return filterOverlappingRegions(regions)
ScanReturn ==
    /\ pc = "scan"
    /\ ScanDone
    /\ result' = filterOverlappingRegions(variant, regions)
    /\ returned' = Append(returned, result')
    /\ pc' = "done"
    /\ UNCHANGED <<queueVars, streamVars, processorVars, variant, data, width, height, config, scanPos,
                   visited, seed, visited0, stack, region, regions>>

VisitedKept(last) == last

\* const visited = new Set<number>(): empty, whatever the last call visited
NewVisited(last) == {}

\* findRegions is called again with the same data, width, height and config
CallAgain ==
    /\ pc = "done"
    /\ Len(returned) < MaxCalls
    /\ visited' = NewVisited(visited)
    /\ regions' = <<>>
    /\ scanPos' = 0
    /\ pc' = "scan"
    /\ UNCHANGED <<queueVars, streamVars, processorVars, returned, variant, data, width, height, config,
                   seed, visited0, stack, region, result>>

\* a StreamProcessor as constructed, never started
ProcessorIdle ==
    /\ maxRetries = 0
    /\ retryCount = 0
    /\ reconnects = 0
    /\ commands = <<>>
    /\ command = 0
    /\ failures = 0
    /\ processorExit = -1

\* no stream processing started, which the region utilities and the queue
\* never touch
StreamIdle ==
    /\ retries = 0
    /\ attempt = 0
    /\ timers = 0
    /\ streamLive = FALSE
    /\ connects = 0
    /\ ends = 0
    /\ exitCode = -1

\* a FrameQueue as constructed, which the region utilities never touch
QueueIdle ==
    /\ maxSize = 1
    /\ queue = <<>>
    /\ processing = FALSE
    /\ isShuttingDown = FALSE
    /\ cleanupCalls = 0
    /\ teardowns = 0
    /\ enqueueCalls = 0
    /\ inFlight = {}
    /\ immediates = 0
    /\ handed = <<>>
    /\ evicted = {}
    /\ warnings = 0
    /\ failed = {}
    /\ pendingAtFail = {}

\* the thresholds of the regionUtils tests
TestConfig ==
    [minArea |-> 1, maxArea |-> 10, minAspectRatio |-> Div(1, 2), maxAspectRatio |-> Num(2)]

\* a w x h mask that is 0 at the positions in zeros and 255 elsewhere
MaskOf(w, h, zeros) == [pos \in 0..(w * h - 1) |-> IF pos \in zeros THEN 0 ELSE 255]

\* the positions of the solid block of bw x bh pixels whose corner is (x0, y0)
Block(w, x0, y0, bw, bh) ==
    {y * w + x : x \in x0..(x0 + bw - 1), y \in y0..(y0 + bh - 1)}

\* test 'should detect a single region correctly'
SingleRegionTest ==
    [width |-> 5, height |-> 5, data |-> MaskOf(5, 5, Block(5, 1, 1, 2, 2)),
     config |-> TestConfig]

\* test 'should ignore regions smaller than minArea'
MinAreaTest ==
    [width |-> 5, height |-> 5, data |-> MaskOf(5, 5, {1 * 5 + 1, 3 * 5 + 2}),
     config |-> [minArea |-> 2, maxArea |-> 10, minAspectRatio |-> Div(1, 2),
                 maxAspectRatio |-> Num(2)]]

\* test 'should ignore regions larger than maxArea'
MaxAreaTest ==
    [width |-> 6, height |-> 6, data |-> MaskOf(6, 6, Block(6, 0, 0, 4, 4)),
     config |-> TestConfig]

\* test 'should handle multiple non-overlapping regions'
TwoRegionsTest ==
    [width |-> 10, height |-> 10,
     data |-> MaskOf(10, 10, {11, 12, 21, 22} \cup {71, 72, 81, 82}),
     config |-> TestConfig]

\* the calls the tests make
TestCalls == {SingleRegionTest, MinAreaTest, MaxAreaTest, TwoRegionsTest}

\* a call findRegions(data, width, height, config)
Init ==
    /\ variant \in Variants
    /\ \/ /\ width \in 1..MaxW
          /\ height \in 1..MaxH
          /\ data \in Masks(width, height)
          /\ config \in Configs
       \/ \E call \in TestCalls :
              /\ width = call.width
              /\ height = call.height
              /\ data = call.data
              /\ config = call.config
    /\ pc = "scan"
    /\ scanPos = 0
    /\ visited = {}
    /\ seed = 0
    /\ visited0 = {}
    /\ stack = <<>>
    /\ region = <<>>
    /\ regions = <<>>
    /\ result = <<>>
    /\ returned = <<>>
    /\ QueueIdle
    /\ StreamIdle
    /\ ProcessorIdle

Next ==
    \/ ScanSkip
    \/ ScanFlood
    \/ FloodDiscard
    \/ FloodVisit
    \/ FloodReturn
    \/ ScanCollect
    \/ ScanReturn
    \/ CallAgain

Spec == Init /\ [][Next]_vars

-----------------------------------------------------------------------------
(* A direct call floodFill(data, width, height, x, y, visited): the seed is
   any foreground pixel, and `visited` holds what findRegions can have put
   there, whole components other than the seed's. *)

Foreground == {p \in DOMAIN data : data[p] = 0}

XOf(p) == p % width

YOf(p) == p \div width

\* p and q share an edge: one step up, down, left or right inside the mask
Adjacent(p, q) ==
    \/ XOf(p) = XOf(q) /\ (YOf(p) = YOf(q) + 1 \/ YOf(q) = YOf(p) + 1)
    \/ YOf(p) = YOf(q) /\ (XOf(p) = XOf(q) + 1 \/ XOf(q) = XOf(p) + 1)

RECURSIVE Closure(_)
Closure(S) ==
    LET more == {q \in Foreground : \E p \in S : Adjacent(p, q)}
    IN  IF more \subseteq S THEN S ELSE Closure(S \cup more)

\* the maximal 4-connected set of foreground pixels holding s
ComponentOf(s) == Closure({s})

\* one pixel of each component: its first pixel in raster order
Roots == {s \in Foreground : \A q \in ComponentOf(s) : s <= q}

\* the mask the direct calls run on
InitFlood ==
    /\ variant \in Variants
    /\ width \in 1..MaxW
    /\ height \in 1..MaxH
    /\ data \in Masks(width, height)
    /\ config = TestConfig
    /\ pc = "call"
    /\ seed = 0
    /\ visited = {}
    /\ visited0 = {}
    /\ stack = <<>>
    /\ region = <<>>
    /\ scanPos = 0
    /\ regions = <<>>
    /\ result = <<>>
    /\ returned = <<>>
    /\ QueueIdle
    /\ StreamIdle
    /\ ProcessorIdle

\* floodFill(data, width, height, x, y, visited) from a foreground seed
FloodCall ==
    /\ pc = "call"
    /\ \E s \in Foreground :
         \E others \in SUBSET (Roots \ ComponentOf(s)) :
           /\ seed' = s
           /\ visited' = UNION {ComponentOf(r) : r \in others}
           /\ stack' = << [x |-> s % width, y |-> s \div width] >>
    /\ visited0' = visited'
    /\ region' = <<>>
    /\ pc' = "flood"
    /\ UNCHANGED <<queueVars, streamVars, processorVars, returned, variant, data, width, height, config, scanPos,
                   regions, result>>

NextFlood ==
    \/ FloodCall
    \/ FloodDiscard
    \/ FloodVisit
    \/ FloodReturn

SpecFlood == InitFlood /\ [][NextFlood]_vars

\* the steps of the while loop of floodFill
FloodLoop == FloodDiscard \/ FloodVisit \/ FloodReturn

\* the while loop is synchronous code: once entered it runs on.  The loop
\* does not read `variant`, so one value of it is followed.
InitFloodLoop == InitFlood /\ variant = "regionUtils"

FairSpecFlood == InitFloodLoop /\ [][NextFlood]_vars /\ WF_vars(FloodLoop)

-----------------------------------------------------------------------------
(* C1: when floodFill returns, the positions it returns are exactly the
   pixels joined to the seed by up/down/left/right steps through pixels of
   value 0 (no diagonal link, no wrap from the end of a row to the start of
   the next), each returned once, and every one of them has mask value 0. *)
C1_FloodFillIsComponent ==
    pc = "filled" =>
        /\ Range(region) = ComponentOf(seed)
        /\ Len(region) = Cardinality(Range(region))
        /\ \A p \in Range(region) : p \in DOMAIN data /\ data[p] = 0

\* floodFill has returned a component that ends a row while the first pixel
\* of the next row is foreground and was left out, as was a diagonal pixel
C1_Witness ==
    /\ pc = "filled"
    /\ \E p \in Range(region) :
           /\ XOf(p) = width - 1
           /\ p + 1 \in Foreground
           /\ p + 1 \notin Range(region)
    /\ \E p \in Range(region), q \in Foreground \ Range(region) :
           (XOf(p) - XOf(q)) * (XOf(p) - XOf(q)) = 1
           /\ (YOf(p) - YOf(q)) * (YOf(p) - YOf(q)) = 1

-----------------------------------------------------------------------------
(* A direct call filterOverlappingRegions(regions) on any list of at most
   MaxRegions rectangles that lie in a MaxFrame x MaxFrame frame (zero widths
   and heights included, as getBoundingBox produces them). *)

Rectangles ==
    { [x |-> x, y |-> y, width |-> w, height |-> h] :
        x \in 0..MaxFrame, y \in 0..MaxFrame, w \in 0..MaxFrame, h \in 0..MaxFrame }

Universe == {r \in Rectangles : r.x + r.width <= MaxFrame /\ r.y + r.height <= MaxFrame}

\* the list of the test "should filter overlapping regions correctly"
TestRegions ==
    << [x |-> 0, y |-> 0, width |-> 4, height |-> 4],
       [x |-> 2, y |-> 2, width |-> 4, height |-> 4],
       [x |-> 5, y |-> 5, width |-> 2, height |-> 2] >>

RegionLists == UNION {[1..k -> Universe] : k \in 0..MaxRegions} \cup {TestRegions}

InitFilter ==
    /\ variant \in Variants
    /\ regions \in RegionLists
    /\ pc = "filter"
    /\ result = <<>>
    /\ returned = <<>>
    /\ width = 0
    /\ height = 0
    /\ data = <<>>
    /\ config = TestConfig
    /\ scanPos = 0
    /\ visited = {}
    /\ seed = 0
    /\ visited0 = {}
    /\ stack = <<>>
    /\ region = <<>>
    /\ QueueIdle
    /\ StreamIdle
    /\ ProcessorIdle

\* const filtered = filterOverlappingRegions(regions)
FilterCall ==
    /\ pc = "filter"
    /\ result' = filterOverlappingRegions(variant, regions)
    /\ pc' = "filtered"
    /\ UNCHANGED <<queueVars, streamVars, processorVars, returned, variant, data, width, height, config, scanPos,
                   visited, seed, visited0, stack, region, regions>>

NextFilter == FilterCall

SpecFilter == InitFilter /\ [][NextFilter]_vars

-----------------------------------------------------------------------------
(* Direct calls calculateOverlap(r1, r2), as the tests make them. *)

\* the pairs of rectangles of the frame, and the pair of the test
\* 'should calculate overlap correctly'
RegionPairs == [1..2 -> Universe] \cup {<<TestRegions[1], TestRegions[2]>>}

InitOverlap ==
    /\ variant \in Variants
    /\ regions \in RegionPairs
    /\ pc = "overlap"
    /\ result = <<>>
    /\ returned = <<>>
    /\ width = 0
    /\ height = 0
    /\ data = <<>>
    /\ config = TestConfig
    /\ scanPos = 0
    /\ visited = {}
    /\ seed = 0
    /\ visited0 = {}
    /\ stack = <<>>
    /\ region = <<>>
    /\ QueueIdle
    /\ StreamIdle
    /\ ProcessorIdle

\* calculateOverlap(r1, r2), then calculateOverlap(r2, r1)
OverlapCall ==
    /\ pc = "overlap"
    /\ result' = <<calculateOverlap(regions[1], regions[2]),
                   calculateOverlap(regions[2], regions[1])>>
    /\ pc' = "overlapped"
    /\ UNCHANGED <<queueVars, streamVars, processorVars, returned, variant, data, width, height, config, scanPos,
                   visited, seed, visited0, stack, region, regions>>

NextOverlap == OverlapCall

SpecOverlap == InitOverlap /\ [][NextOverlap]_vars

-----------------------------------------------------------------------------
(* FrameQueue (services/stream).  Node runs enqueue, the part of processQueue
   up to its await, the part after it, and a setImmediate callback each to
   completion, so each is one action.  Call k of enqueue carries packet k. *)

Packets == 1..MaxPackets

EnqueueRefusedNever(shut) == FALSE

\* if (isShuttingDown) return;
EnqueueRefused(shut) == shut

QueueFullOffByOne(q, m) == Len(q) > m

\* this.queue.length >= this.maxSize
QueueFull(q, m) == Len(q) >= m

ShiftKeepsHead(q) ==
    IF q = <<>> THEN [packet |-> 0, rest |-> q]
    ELSE [packet |-> Head(q), rest |-> q]

ShiftFromEnd(q) ==
    IF q = <<>> THEN [packet |-> 0, rest |-> q]
    ELSE [packet |-> q[Len(q)], rest |-> SubSeq(q, 1, Len(q) - 1)]

\* this.queue.shift(): the packet returned (0 for undefined, on an empty
\* array) and the array left
Shift(q) ==
    IF q = <<>> THEN [packet |-> 0, rest |-> q]
    ELSE [packet |-> Head(q), rest |-> Tail(q)]

\* the packet this.queue.shift() returns
Oldest(q) == Shift(q).packet

\* this.queue after this.queue.shift()
Rest(q) == Shift(q).rest

StartsDrainNever(proc) == FALSE

StartsDrainAlways(proc) == TRUE

\* if (!this.processing) this.processQueue()
StartsDrain(proc) == ~proc

DrainStopsOnEmptyOnly(q, shut) == Len(q) = 0

\* this.queue.length === 0 || isShuttingDown
DrainStops(q, shut) == Len(q) = 0 \/ shut

ImmediatesAfterEscape(n) == n

\* the catch block falls through to setImmediate(() => this.processQueue())
ImmediatesAfterCatch(n) == n + 1

\* processQueue() up to its await, run on the pending packets q
ProcessQueueFrom(q) ==
    IF DrainStops(q, isShuttingDown)
    THEN /\ processing' = FALSE
         /\ queue' = q
         /\ UNCHANGED <<handed, inFlight>>
    ELSE /\ processing' = TRUE
         /\ queue' = Rest(q)
         /\ handed' = Append(handed, Oldest(q))
         /\ inFlight' = inFlight \cup {Oldest(q)}

\* frameQueue.enqueue(buffer)
Enqueue ==
    /\ enqueueCalls < MaxPackets
    /\ enqueueCalls' = enqueueCalls + 1
    /\ IF EnqueueRefused(isShuttingDown)
       THEN UNCHANGED <<queue, processing, handed, inFlight, evicted, warnings>>
       ELSE LET full == QueueFull(queue, maxSize)
                shifted == IF full THEN Rest(queue) ELSE queue
                pushed == Append(shifted, enqueueCalls + 1)
            IN  /\ warnings' = IF full THEN warnings + 1 ELSE warnings
                /\ evicted' = IF full /\ queue # <<>>
                              THEN evicted \cup {Oldest(queue)}
                              ELSE evicted
                /\ IF StartsDrain(processing)
                   THEN ProcessQueueFrom(pushed)
                   ELSE /\ queue' = pushed
                        /\ UNCHANGED <<processing, handed, inFlight>>
    /\ UNCHANGED <<regionVars, streamVars, processorVars, maxSize, isShuttingDown, cleanupCalls,
                   teardowns, immediates, failed, pendingAtFail>>

\* await processFrame(buffer) resolves; setImmediate is called
ProcessFrameResolves ==
    /\ \E p \in inFlight : inFlight' = inFlight \ {p}
    /\ immediates' = immediates + 1
    /\ UNCHANGED <<regionVars, streamVars, processorVars, maxSize, queue, processing, isShuttingDown,
                   cleanupCalls, teardowns, enqueueCalls,
                   handed, evicted, warnings, failed, pendingAtFail>>

\* await processFrame(buffer) rejects; the error is logged; setImmediate is called
ProcessFrameRejects ==
    /\ \E p \in inFlight :
           /\ inFlight' = inFlight \ {p}
           /\ failed' = failed \cup {p}
    /\ pendingAtFail' = pendingAtFail \cup Range(queue)
    /\ immediates' = ImmediatesAfterCatch(immediates)
    /\ UNCHANGED <<regionVars, streamVars, processorVars, maxSize, queue, processing, isShuttingDown,
                   cleanupCalls, teardowns, enqueueCalls,
                   handed, evicted, warnings>>

\* the setImmediate callback: this.processQueue()
Immediate ==
    /\ immediates > 0
    /\ immediates' = immediates - 1
    /\ ProcessQueueFrom(queue)
    /\ UNCHANGED <<regionVars, streamVars, processorVars, maxSize, isShuttingDown, cleanupCalls,
                   teardowns, enqueueCalls, evicted, warnings,
                   failed, pendingAtFail>>

CleanupRefusedNever(shut) == FALSE

\* cleanup(): if (isShuttingDown) return
CleanupRefused(shut) == shut

\* cleanup() up to its first await: the test of the flag, isShuttingDown = true
CleanupBody ==
    /\ cleanupCalls < MaxCleanups
    /\ cleanupCalls' = cleanupCalls + 1
    /\ IF CleanupRefused(isShuttingDown)
       THEN UNCHANGED <<isShuttingDown, teardowns>>
       ELSE /\ isShuttingDown' = TRUE
            /\ teardowns' = teardowns + 1
    /\ UNCHANGED <<regionVars, processorVars, maxSize, queue, processing, enqueueCalls,
                   inFlight, immediates, handed, evicted, warnings, failed, pendingAtFail>>

\* SIGINT or SIGTERM: cleanup()
Cleanup ==
    /\ CleanupBody
    /\ UNCHANGED streamVars

\* the region utilities at rest, which the queue never touches
RegionIdle ==
    /\ variant = "regionUtils"
    /\ width = 0
    /\ height = 0
    /\ data = <<>>
    /\ config = TestConfig
    /\ pc = "idle"
    /\ scanPos = 0
    /\ visited = {}
    /\ seed = 0
    /\ visited0 = {}
    /\ stack = <<>>
    /\ region = <<>>
    /\ regions = <<>>
    /\ result = <<>>
    /\ returned = <<>>

\* new FrameQueue(maxSize)
InitQueue ==
    /\ maxSize \in 1..MaxQueueSize
    /\ queue = <<>>
    /\ processing = FALSE
    /\ isShuttingDown = FALSE
    /\ cleanupCalls = 0
    /\ teardowns = 0
    /\ enqueueCalls = 0
    /\ inFlight = {}
    /\ immediates = 0
    /\ handed = <<>>
    /\ evicted = {}
    /\ warnings = 0
    /\ failed = {}
    /\ pendingAtFail = {}
    /\ RegionIdle
    /\ StreamIdle
    /\ ProcessorIdle

NextQueue ==
    \/ Enqueue
    \/ ProcessFrameResolves
    \/ ProcessFrameRejects
    \/ Immediate
    \/ Cleanup

SpecQueue == InitQueue /\ [][NextQueue]_vars

\* the event loop runs every scheduled setImmediate callback, and every
\* processFrame call settles
FairSpecQueue ==
    /\ SpecQueue
    /\ WF_vars(Immediate)
    /\ WF_vars(ProcessFrameResolves \/ ProcessFrameRejects)

-----------------------------------------------------------------------------
(* startStreamProcessing (services/stream).  processStream, the 'error' and
   'end' handlers and the timer callback each run to completion.  An ffmpeg
   command emits 'error' or 'end', and only one of them once; process.exit
   ends the process, after which nothing runs. *)

Running == exitCode = -1

ConnectsAnyway(shut) == FALSE

\* processStream: if (isShuttingDown) return
ConnectRefused(shut) == shut

HandlerNeverReturns(shut) == FALSE

\* the 'error' and 'end' handlers: if (isShuttingDown) return
HandlerReturns(shut) == shut

RetriesLeftOneMore(a, r) == a < r

\* attempt < retries - 1
RetriesLeft(a, r) == a < r - 1

\* the body of processStream: shutdown check, fs.accessSync(TEMP_DIR),
\* ffmpeg(CONFIG.RTSP_URL)...pipe()
ProcessStream ==
    IF ConnectRefused(isShuttingDown)
    THEN UNCHANGED <<streamLive, connects, exitCode>>
    ELSE \E writable \in BOOLEAN :
             IF writable
             THEN /\ streamLive' = TRUE
                  /\ connects' = connects + 1
                  /\ exitCode' = exitCode
             ELSE /\ exitCode' = 1
                  /\ UNCHANGED <<streamLive, connects>>

\* startStreamProcessing(retries, delay): let attempt = 0; processStream()
StartStreamProcessing ==
    /\ Running
    /\ connects = 0
    /\ timers = 0
    /\ attempt' = 0
    /\ ProcessStream
    /\ UNCHANGED <<regionVars, queueVars, processorVars, retries, timers, ends>>

\* a setTimeout(processStream, delay) callback runs
TimerFires ==
    /\ Running
    /\ timers > 0
    /\ timers' = timers - 1
    /\ ProcessStream
    /\ UNCHANGED <<regionVars, queueVars, processorVars, retries, attempt, ends>>

\* the 'error' handler
StreamError ==
    /\ Running
    /\ streamLive
    /\ streamLive' = FALSE
    /\ IF HandlerReturns(isShuttingDown)
       THEN UNCHANGED <<attempt, timers, exitCode>>
       ELSE IF RetriesLeft(attempt, retries)
            THEN /\ attempt' = attempt + 1
                 /\ timers' = timers + 1
                 /\ exitCode' = exitCode
            ELSE /\ exitCode' = 1
                 /\ UNCHANGED <<attempt, timers>>
    /\ UNCHANGED <<regionVars, queueVars, processorVars, retries, connects, ends>>

\* the 'end' handler
StreamEnd ==
    /\ Running
    /\ streamLive
    /\ ends < MaxEnds
    /\ streamLive' = FALSE
    /\ ends' = ends + 1
    /\ timers' = IF HandlerReturns(isShuttingDown) THEN timers ELSE timers + 1
    /\ UNCHANGED <<regionVars, queueVars, processorVars, retries, attempt, connects, exitCode>>

\* SIGINT / SIGTERM / uncaught exception: cleanup() up to its first await
StreamCleanup ==
    /\ Running
    /\ Cleanup

\* an uncaught exception: cleanup(); process.exit(1).  A cleanup() that
\* passes the flag and has nothing to await has called process.exit(0) itself
UncaughtException ==
    /\ Running
    /\ CleanupBody
    /\ \E awaits \in BOOLEAN :
           exitCode' = IF ~CleanupRefused(isShuttingDown) /\ ~awaits THEN 0 ELSE 1
    /\ UNCHANGED <<retries, attempt, timers, streamLive, connects, ends>>

\* cleanup() after its awaits: process.exit(0)
CleanupExits ==
    /\ Running
    /\ isShuttingDown
    /\ exitCode' = 0
    /\ UNCHANGED <<regionVars, queueVars, processorVars, retries, attempt, timers, streamLive,
                   connects, ends>>

\* the module is loaded, startStreamProcessing has not been called
InitStream ==
    /\ retries \in 0..MaxRetries
    /\ attempt = 0
    /\ timers = 0
    /\ streamLive = FALSE
    /\ connects = 0
    /\ ends = 0
    /\ exitCode = -1
    /\ RegionIdle
    /\ QueueIdle
    /\ ProcessorIdle

NextStream ==
    \/ StartStreamProcessing
    \/ TimerFires
    \/ StreamError
    \/ StreamEnd
    \/ StreamCleanup
    \/ UncaughtException
    \/ CleanupExits

SpecStream == InitStream /\ [][NextStream]_vars

-----------------------------------------------------------------------------
(* StreamProcessor (services/streamProcessor).  connectStream, each event
   handler and each timer callback run to completion.  An ffmpeg command
   emits 'start' at most once and then 'error' or 'end', only one of them and
   once; its PassThrough stream emits 'error' at most once.  Nothing ties the
   two: an error of the stream is also reported by the command. *)

ProcessorRunning == processorExit = -1

\* this.stream = new PassThrough(); this.command = ffmpeg(CONFIG.RTSP_URL)...
NewCommand == [started |-> FALSE, settled |-> FALSE, streamError |-> FALSE]

\* connectStream()
ConnectStream ==
    /\ commands' = Append(commands, NewCommand)
    /\ command' = Len(commands) + 1

\* handleStreamError(), called by a handler of the command or stream at i
HandleStreamError ==
    /\ failures' = failures + 1
    /\ IF retryCount < maxRetries
       THEN /\ reconnects' = reconnects + 1
            /\ processorExit' = processorExit
       ELSE /\ processorExit' = 1
            /\ reconnects' = reconnects

\* startStream()
StartStream ==
    /\ ProcessorRunning
    /\ commands = <<>>
    /\ ConnectStream
    /\ UNCHANGED <<regionVars, queueVars, streamVars, maxRetries, retryCount, reconnects,
                   failures, processorExit>>

\* the 'start' handler: this.retryCount = 0
FfmpegStart ==
    /\ ProcessorRunning
    /\ \E i \in 1..Len(commands) :
           /\ ~commands[i].started
           /\ ~commands[i].settled
           /\ commands' = [commands EXCEPT ![i].started = TRUE]
    /\ retryCount' = 0
    /\ UNCHANGED <<regionVars, queueVars, streamVars, maxRetries, reconnects, command,
                   failures, processorExit>>

\* the 'error' handler of the command
FfmpegError ==
    /\ ProcessorRunning
    /\ failures < MaxFailures
    /\ \E i \in 1..Len(commands) :
           /\ ~commands[i].settled
           /\ commands' = [commands EXCEPT ![i].settled = TRUE]
    /\ HandleStreamError
    /\ UNCHANGED <<regionVars, queueVars, streamVars, maxRetries, retryCount, command>>

\* the 'end' handler of the command
FfmpegEnd ==
    /\ ProcessorRunning
    /\ failures < MaxFailures
    /\ \E i \in 1..Len(commands) :
           /\ commands[i].started
           /\ ~commands[i].settled
           /\ ~commands[i].streamError
           /\ commands' = [commands EXCEPT ![i].settled = TRUE]
    /\ HandleStreamError
    /\ UNCHANGED <<regionVars, queueVars, streamVars, maxRetries, retryCount, command>>

\* the 'error' handler of the PassThrough stream
PassThroughError ==
    /\ ProcessorRunning
    /\ failures < MaxFailures
    /\ \E i \in 1..Len(commands) :
           /\ ~commands[i].streamError
           /\ commands' = [commands EXCEPT ![i].streamError = TRUE]
    /\ HandleStreamError
    /\ UNCHANGED <<regionVars, queueVars, streamVars, maxRetries, retryCount, command>>

\* the setTimeout callback of handleStreamError: retryCount += 1; connectStream()
ReconnectTimer ==
    /\ ProcessorRunning
    /\ reconnects > 0
    /\ reconnects' = reconnects - 1
    /\ retryCount' = retryCount + 1
    /\ ConnectStream
    /\ UNCHANGED <<regionVars, queueVars, streamVars, maxRetries, failures, processorExit>>

\* stopStream(): the command is killed and forgotten, the stream ended
StopStream ==
    /\ ProcessorRunning
    /\ command # 0
    /\ command' = 0
    /\ UNCHANGED <<regionVars, queueVars, streamVars, maxRetries, retryCount, reconnects,
                   commands, failures, processorExit>>

\* new StreamProcessor(), with CONFIG.MAX_RETRIES read from the environment
InitProcessor ==
    /\ maxRetries \in 0..MaxRetries
    /\ retryCount = 0
    /\ reconnects = 0
    /\ commands = <<>>
    /\ command = 0
    /\ failures = 0
    /\ processorExit = -1
    /\ RegionIdle
    /\ QueueIdle
    /\ StreamIdle

NextProcessor ==
    \/ StartStream
    \/ FfmpegStart
    \/ FfmpegError
    \/ FfmpegEnd
    \/ PassThroughError
    \/ ReconnectTimer
    \/ StopStream

SpecProcessor == InitProcessor /\ [][NextProcessor]_vars

-----------------------------------------------------------------------------
(* What the claims measure, stated without the code's arithmetic. *)

\* the unit cells of the plane a rectangle covers
Cells(r) == {<<i, j>> : i \in r.x..(r.x + r.width - 1), j \in r.y..(r.y + r.height - 1)}

Area(r) == Cardinality(Cells(r))

IntersectionArea(r1, r2) == Cardinality(Cells(r1) \cap Cells(r2))

SmallerArea(r1, r2) == IF Area(r1) <= Area(r2) THEN Area(r1) ELSE Area(r2)

\* intersection / smaller area > 1/2 (the ratio is undefined, and exceeds
\* nothing, when the smaller area is 0)
Exceeds(r1, r2) ==
    SmallerArea(r1, r2) > 0 /\ 2 * IntersectionArea(r1, r2) > SmallerArea(r1, r2)

RECURSIVE Restrict(_, _, _)
\* the elements of rs at the indices in K, from index i on, in list order
Restrict(rs, K, i) ==
    IF i > Len(rs) THEN <<>>
    ELSE (IF i \in K THEN <<rs[i]>> ELSE <<>>) \o Restrict(rs, K, i + 1)

\* the indices whose region overlaps no other region of the list above 0.5
AllPairsKept(rs) ==
    {i \in 1..Len(rs) : \A j \in 1..Len(rs) : j # i => ~Exceeds(rs[i], rs[j])}

\* the indices whose region overlaps no earlier kept region above 0.5
KeepFirstKept(rs) ==
    CHOOSE K \in SUBSET (1..Len(rs)) :
        \A i \in 1..Len(rs) :
            i \in K <=> (\A j \in K : j < i => ~Exceeds(rs[i], rs[j]))

\* the thresholds of config, on the bounding box r
InThresholds(r, cfg) ==
    /\ cfg.minArea <= r.width * r.height
    /\ r.width * r.height <= cfg.maxArea
    /\ r.height > 0
    /\ cfg.minAspectRatio.n * r.height <= r.width * cfg.minAspectRatio.d
    /\ r.width * cfg.maxAspectRatio.d <= cfg.maxAspectRatio.n * r.height

-----------------------------------------------------------------------------
(* C2: every region findRegions returns satisfies
   minArea <= width*height <= maxArea and
   minAspectRatio <= width/height <= maxAspectRatio. *)
C2_ReturnedWithinThresholds ==
    pc = "done" => \A i \in 1..Len(result) : InThresholds(result[i], config)

\* findRegions has returned a region and has turned another component down
C2_Witness ==
    /\ pc = "done"
    /\ Len(result) >= 1
    /\ Cardinality(Roots) > Len(regions)

(* C3, as amended: the all-pairs implementation (utils/image-processing)
   keeps exactly the regions that overlap no other region of the input above
   0.5, so two regions overlapping each other above 0.5 are both removed;
   the keep-first implementation (utils/regionUtils) keeps exactly the
   regions that overlap none of the regions kept before them above 0.5, so
   of two such regions the earlier one stays. *)
C3_RemovalRule ==
    pc = "filtered" =>
        /\ variant = "imageProcessing" =>
               result = Restrict(regions, AllPairsKept(regions), 1)
        /\ variant = "regionUtils" =>
               result = Restrict(regions, KeepFirstKept(regions), 1)

\* the keep-first implementation has filtered two different regions that
\* overlap each other above 0.5, and has kept the first of them
C3_Witness ==
    /\ pc = "filtered"
    /\ variant = "regionUtils"
    /\ Len(regions) = 2
    /\ regions[1] # regions[2]
    /\ Exceeds(regions[1], regions[2])
    /\ result = <<regions[1]>>

(* C3 as claimed: filterOverlappingRegions removes a region exactly when it
   overlaps some other region of the input above 0.5, in every
   implementation. *)
C3_AsClaimed ==
    pc = "filtered" => result = Restrict(regions, AllPairsKept(regions), 1)

(* C4: any two regions at different places of the list that
   filterOverlappingRegions returns intersect in at most half of the smaller
   of their two areas. *)
C4_OutputPairwiseLowOverlap ==
    pc = "filtered" =>
        \A i, j \in 1..Len(result) :
            i # j => 2 * IntersectionArea(result[i], result[j])
                         <= SmallerArea(result[i], result[j])

\* two kept regions intersect, in half of the smaller one's area or less
C4_Witness ==
    /\ pc = "filtered"
    /\ \E i, j \in 1..Len(result) :
           i # j /\ IntersectionArea(result[i], result[j]) > 0

(* C5: the number of pending packets never exceeds maxSize, and an enqueue
   that finds the queue at maxSize drops exactly the oldest pending packet
   (which is not handed over), logs one warning and appends the new packet. *)
C5_QueueNeverExceedsMaxSize ==
    /\ [](Len(queue) <= maxSize)
    /\ [][ (enqueueCalls' # enqueueCalls /\ ~isShuttingDown /\ Len(queue) = maxSize) =>
              /\ evicted' = evicted \cup {Head(queue)}
              /\ warnings' = warnings + 1
              /\ queue' = Append(Tail(queue), enqueueCalls')
              /\ handed' = handed ]_vars

\* a queue of two held at its maximum after an eviction and its warning
C5_Witness ==
    /\ maxSize = 2
    /\ Len(queue) = maxSize
    /\ evicted # {}
    /\ warnings >= 1

(* C6: the packets handed to the processing stage are handed over in the
   order in which they were enqueued. *)
C6_HandedInEnqueueOrder ==
    \A i, j \in 1..Len(handed) : i < j => handed[i] < handed[j]

\* three packets were handed over, and one enqueued between two of them was evicted
C6_Witness ==
    /\ Len(handed) >= 3
    /\ \E e \in evicted : handed[1] < e /\ e < handed[Len(handed)]

(* C7: at most one packet is with the processing stage and at most one drain
   loop is active (awaiting processFrame or scheduled by setImmediate);
   while one is, the processing flag is set. *)
C7_SingleFlight ==
    /\ Cardinality(inFlight) + immediates <= 1
    /\ (inFlight # {} \/ immediates > 0) => processing

\* a second packet is with the processing stage while others wait
C7_Witness ==
    /\ Len(handed) >= 2
    /\ inFlight # {}
    /\ queue # <<>>

(* C8: a processFrame call that rejects leaves the drain loop scheduled with
   the processing flag set, and every packet that was pending at that moment
   is later handed to the processing stage, unless it is evicted or the
   shutdown flag is set. *)
C8_FailureDoesNotStopDrain ==
    /\ [][ failed' # failed => (immediates' = immediates + 1 /\ processing') ]_vars
    /\ \A q \in Packets :
           (q \in pendingAtFail) ~>
               (q \in Range(handed) \/ q \in evicted \/ isShuttingDown)

\* a packet that was pending when a call rejected has been handed over
C8_Witness ==
    /\ ~isShuttingDown
    /\ \E q \in pendingAtFail : q \in Range(handed)

(* C9: once the shutdown flag is set it stays set, no packet is handed to the
   processing stage, no packet joins or leaves the pending queue, a packet in
   flight is only ever removed by its own completion, and the next
   processQueue run clears the processing flag. *)
C9_NoHandOverAfterShutdown ==
    [][ isShuttingDown =>
          /\ isShuttingDown'
          /\ handed' = handed
          /\ queue' = queue
          /\ inFlight' \subseteq inFlight
          /\ (immediates' < immediates => ~processing') ]_vars

\* after shutdown the drain loop has stopped and has left packets pending
C9_Witness ==
    /\ isShuttingDown
    /\ handed # <<>>
    /\ queue # <<>>
    /\ inFlight = {}
    /\ immediates = 0
    /\ ~processing

(* C10: with the shutdown flag set, a call of enqueue changes neither the
   pending queue nor the processing flag, evicts nothing, warns of nothing
   and starts no drain loop. *)
C10_EnqueueIgnoredOnShutdown ==
    [][ (isShuttingDown /\ enqueueCalls' # enqueueCalls) =>
          UNCHANGED <<queue, processing, evicted, warnings, handed, inFlight,
                      immediates>> ]_vars

\* enqueue was called more often than packets were accepted
C10_Witness ==
    /\ isShuttingDown
    /\ enqueueCalls > Cardinality(Range(queue) \cup Range(handed) \cup evicted)

-----------------------------------------------------------------------------
\* the packets numbered a..b, in order
Run(a, b) == [i \in 1..(IF b >= a THEN b - a + 1 ELSE 0) |-> a + i - 1]

\* no processFrame call has settled yet, and shutdown has not begun
NothingSettled ==
    /\ ~isShuttingDown
    /\ immediates = 0
    /\ inFlight = Range(handed)

(* C11, as stated: enqueuing maxSize + 1 packets with no draining in progress
   leaves the queue at length maxSize, and the packet enqueued first has been
   evicted without being handed to the processing stage. *)
C11_AsClaimed ==
    (NothingSettled /\ enqueueCalls = maxSize + 1) =>
        /\ Len(queue) = maxSize
        /\ 1 \in evicted
        /\ 1 \notin Range(handed)

(* C11, as amended: the first packet enqueued on an idle queue is handed to
   the processing stage by its own enqueue call and is never evicted; while a
   packet p is in flight and nothing is dequeued, the packets enqueued after
   p wait in order, the newest maxSize of them pending, so that with
   maxSize + 1 of them the queue is at length maxSize and the first of them
   has been evicted without being handed over. *)
C11_BurstWhileInFlight ==
    ~isShuttingDown =>
        /\ enqueueCalls >= 1 => (handed # <<>> /\ handed[1] = 1 /\ 1 \notin evicted)
        /\ \A p \in inFlight :
               p = handed[Len(handed)] =>
                   LET n == enqueueCalls - p
                   IN  /\ queue = Run(enqueueCalls - Min(n, maxSize) + 1, enqueueCalls)
                       /\ {e \in evicted : e > p} = (p + 1)..(enqueueCalls - maxSize)
                       /\ \A e \in (p + 1)..enqueueCalls : e \notin Range(handed)

\* maxSize + 1 packets were enqueued behind the packet in flight, and the
\* first of them was evicted
C11_Witness ==
    /\ NothingSettled
    /\ handed = <<1>>
    /\ enqueueCalls = maxSize + 2
    /\ Len(queue) = maxSize
    /\ evicted = {2}

(* C12: drop-oldest eviction only ever removes the head of the pending queue;
   a call of enqueue never evicts, replaces or aborts the packet handed to
   the processing stage: a packet in flight stays in flight, the hand-over
   record is only extended, and no packet is both evicted and handed over. *)
C12_EvictionTakesPendingHead ==
    /\ [](evicted \cap Range(handed) = {})
    /\ [][ enqueueCalls' # enqueueCalls =>
             /\ inFlight \subseteq inFlight'
             /\ SubSeq(handed', 1, Len(handed)) = handed
             /\ failed' = failed
             /\ evicted' # evicted =>
                    /\ queue # <<>>
                    /\ evicted' = evicted \cup {Head(queue)}
                    /\ Head(queue) \notin inFlight
                    /\ Head(queue) \notin Range(queue')
                    /\ Range(queue') = (Range(queue) \ {Head(queue)}) \cup {enqueueCalls'} ]_vars

\* a packet was evicted from a queue of two while another was in flight
C12_Witness ==
    /\ maxSize = 2
    /\ Len(queue) = 2
    /\ inFlight # {}
    /\ evicted # {}
    /\ inFlight \cap evicted = {}

(* C13: findRegions is deterministic: two calls with the same mask, width,
   height and config return the same regions, in the same list order. *)
C13_SecondCallReturnsTheSame ==
    \A i, j \in 1..Len(returned) : returned[i] = returned[j]

\* the second call has returned, and what it returned is two regions
C13_Witness ==
    /\ pc = "done"
    /\ Len(returned) = 2
    /\ Len(returned[2]) = 2

(* C14: every Region returned by findRegions has width > 0 and height > 0,
   for every mask and every DetectionConfig, minArea = 0 and
   minAspectRatio = 0 included. *)
C14_ReturnedRegionsHaveExtent ==
    pc = "done" => \A i \in 1..Len(result) : result[i].width > 0 /\ result[i].height > 0

(* C15, as stated: every region returned by findRegions carries
   confidence = (width*height / maxArea) * 100, a value in [0, 100]. *)
C15_AsClaimed ==
    pc = "done" =>
        \A i \in 1..Len(result) :
            /\ "confidence" \in DOMAIN result[i]
            /\ result[i].confidence.d > 0
            /\ result[i].confidence.n * config.maxArea
                   = result[i].width * result[i].height * 100 * result[i].confidence.d
            /\ 0 <= result[i].confidence.n
            /\ result[i].confidence.n <= 100 * result[i].confidence.d

(* C15, as amended: every region returned by findRegions of
   utils/image-processing carries confidence = (width*height / maxArea) * 100,
   which lies in [0, 100] when maxArea > 0 and is NaN (0/0) when
   maxArea = 0; the regions returned by findRegions of utils/regionUtils
   carry x, y, width and height only. *)
C15_ConfidenceOfImageProcessing ==
    pc = "done" =>
        \A i \in 1..Len(result) :
            /\ variant = "regionUtils" => DOMAIN result[i] = {"x", "y", "width", "height"}
            /\ variant = "imageProcessing" =>
                   /\ "confidence" \in DOMAIN result[i]
                   /\ config.maxArea > 0 =>
                          /\ result[i].confidence.d > 0
                          /\ result[i].confidence.n * config.maxArea
                                 = result[i].width * result[i].height * 100
                                       * result[i].confidence.d
                          /\ 0 <= result[i].confidence.n
                          /\ result[i].confidence.n <= 100 * result[i].confidence.d
                   /\ config.maxArea = 0 => IsNaN(result[i].confidence)

\* utils/image-processing has returned a region whose confidence is 100
C15_Witness ==
    /\ pc = "done"
    /\ variant = "imageProcessing"
    /\ result # <<>>
    /\ config.maxArea > 0
    /\ result[1].confidence.n = 100 * result[1].confidence.d

\* the call in progress is the given test call
Calls(call) ==
    /\ width = call.width
    /\ height = call.height
    /\ data = call.data
    /\ config = call.config

\* the four coordinates of a region, whatever else it carries
Box(r) == [x |-> r.x, y |-> r.y, width |-> r.width, height |-> r.height]

(* C16: a solid rectangular block of foreground pixels, w wide and h tall, is
   reported by findRegions with width = w and height = h; the 5x5 mask whose
   only zero pixels are the 2x2 block at rows 1-2, columns 1-2, with config
   {minArea 1, maxArea 10, minAspectRatio 0.5, maxAspectRatio 2}, yields
   exactly one region, {x: 1, y: 1, width: 2, height: 2}. *)
C16_BlockReportedWithItsSize ==
    pc = "done" =>
        /\ Calls(SingleRegionTest) =>
               /\ Len(result) = 1
               /\ Box(result[1]) = [x |-> 1, y |-> 1, width |-> 2, height |-> 2]
        /\ \A x0 \in 0..(width - 1), y0 \in 0..(height - 1), bw \in 1..width, bh \in 1..height :
               (Foreground = Block(width, x0, y0, bw, bh) /\ x0 + bw <= width) =>
                   \A i \in 1..Len(result) : result[i].width = bw /\ result[i].height = bh

\* the pixels inside the bounding box r: columns x..x+width, rows y..y+height
PixelsSpanned(r) == (r.width + 1) * (r.height + 1)

(* C17: a component whose area exceeds maxArea is not returned; findRegions
   on the 6x6 mask whose only foreground is a solid 4x4 block (area 16), with
   config {minArea 1, maxArea 10, minAspectRatio 0.5, maxAspectRatio 2},
   returns zero regions. *)
C17_LargeComponentNotReturned ==
    pc = "done" =>
        /\ Calls(MaxAreaTest) => Len(result) = 0
        /\ \A i \in 1..Len(result) : PixelsSpanned(result[i]) <= config.maxArea

(* C18: a connected component consisting of a single pixel is never returned
   by findRegions, whatever the DetectionConfig: when floodFill has collected
   one pixel, findRegions pushes nothing, and no 0x0 box is ever returned;
   in particular the two isolated single pixels of the minArea = 2 test
   yield zero regions. *)
C18_SinglePixelNeverReturned ==
    /\ [](pc = "done" =>
            /\ \A i \in 1..Len(result) : ~(result[i].width = 0 /\ result[i].height = 0)
            /\ Calls(MinAreaTest) => result = <<>>)
    /\ [][ (pc = "filled" /\ Len(region) = 1) => regions' = regions ]_vars

\* with minArea = 0 a mask holding a single-pixel component has been scanned
\* to the end, and only its other component was returned
C18_Witness ==
    /\ pc = "done"
    /\ config.minArea = 0
    /\ \E s \in Roots : ComponentOf(s) = {s}
    /\ Len(result) = 1
    /\ Cardinality(Roots) = 2

(* C19: for regions r1, r2 of positive area, calculateOverlap(r1, r2) is the
   area of the axis-aligned intersection rectangle of r1 and r2 (0 when they
   do not intersect) divided by the smaller of the two areas, and
   calculateOverlap(r1, r2) = calculateOverlap(r2, r1); for {0,0,4,4} and
   {2,2,4,4} the ratio is 0.25 (4/16). *)
C19_OverlapIsIntersectionOverSmaller ==
    (pc = "overlapped" /\ Area(regions[1]) > 0 /\ Area(regions[2]) > 0) =>
        /\ result[1].d > 0
        /\ result[1].n * SmallerArea(regions[1], regions[2])
               = IntersectionArea(regions[1], regions[2]) * result[1].d
        /\ result[2] = result[1]
        /\ regions = <<TestRegions[1], TestRegions[2]>> =>
               (result[1].n = 4 /\ result[1].d = 16 /\ 4 * result[1].n = result[1].d)

\* the overlap of two rectangles that share a part of each has been computed
C19_Witness ==
    /\ pc = "overlapped"
    /\ IntersectionArea(regions[1], regions[2]) > 0
    /\ IntersectionArea(regions[1], regions[2]) < SmallerArea(regions[1], regions[2])

(* C20: filterOverlappingRegions applied to [{0,0,4,4}, {2,2,4,4}, {5,5,2,2}]
   returns a list of exactly 2 regions that contains {0,0,4,4} and {5,5,2,2};
   the second region, which overlaps the first, is removed. *)
C20_TestListLosesSecondRegion ==
    (pc = "filtered" /\ regions = TestRegions) =>
        /\ Len(result) = 2
        /\ TestRegions[1] \in Range(result)
        /\ TestRegions[3] \in Range(result)
        /\ TestRegions[2] \notin Range(result)

(* C21: filterOverlappingRegions returns a region list of size 0 or 1
   unchanged, whatever the single region's coordinates and size. *)
C21_ShortListsUnchanged ==
    (pc = "filtered" /\ Len(regions) <= 1) => result = regions

\* a list of one region of positive area has been filtered
C21_Witness ==
    /\ pc = "filtered"
    /\ Len(regions) = 1
    /\ Area(regions[1]) > 0
    /\ result = regions

(* C22: findRegions, together with floodFill, getBoundingBox and
   filterOverlappingRegions, never writes to the pixel mask: no step of the
   call changes a byte of data (nor width or height), so after the call every
   byte equals its value before the call. *)
C22_MaskNeverWritten ==
    [][ data' = data /\ width' = width /\ height' = height ]_vars

\* a call that flood-filled two components and returned a region is over
C22_Witness ==
    /\ pc = "done"
    /\ Cardinality(Roots) = 2
    /\ visited = Foreground
    /\ result # <<>>

\* b.x and b.y are the least column and row of the pixels in C, and
\* b.x + b.width and b.y + b.height the greatest
IsBoxOf(b, C) ==
    /\ \E p \in C : XOf(p) = b.x
    /\ \E p \in C : YOf(p) = b.y
    /\ \E p \in C : XOf(p) = b.x + b.width
    /\ \E p \in C : YOf(p) = b.y + b.height
    /\ \A p \in C : b.x <= XOf(p) /\ XOf(p) <= b.x + b.width
    /\ \A p \in C : b.y <= YOf(p) /\ YOf(p) <= b.y + b.height

(* C23: for each connected component getBoundingBox returns x = minimum
   column, y = minimum row, width = maxX - minX and height = maxY - minY
   over the component's pixels, and that is the box findRegions pushes; so
   each of the two solid 2x2 blocks of the 10x10 test mask is returned as its
   own region, {x:1,y:1,width:1,height:1} and {x:1,y:7,width:1,height:1}. *)
C23_BoxIsMaxMinusMin ==
    /\ [](pc = "filled" => IsBoxOf(getBoundingBox(Range(region), width), Range(region)))
    /\ []((pc = "done" /\ Calls(TwoRegionsTest)) =>
            /\ Len(result) = 2
            /\ {Box(result[i]) : i \in 1..2}
                   = { [x |-> 1, y |-> 1, width |-> 1, height |-> 1],
                       [x |-> 1, y |-> 7, width |-> 1, height |-> 1] })
    /\ [][ (pc = "filled" /\ Len(regions') > Len(regions)) =>
             IsBoxOf(Box(regions'[Len(regions')]), Range(region)) ]_vars

\* the call on the 10x10 mask with two blocks has returned two regions
C23_Witness ==
    /\ pc = "done"
    /\ Calls(TwoRegionsTest)
    /\ Len(result) = 2
    /\ visited = {11, 12, 21, 22, 71, 72, 81, 82}

(* C24: within one findRegions call every foreground pixel is assigned to
   exactly one component and floodFill is started exactly once per
   4-connected foreground component: the visited set only grows, a position
   is added to it (and to the region being collected) only when it is not yet
   in it, every floodFill call starts at the first pixel of a component none
   of whose pixels is visited and returns that component, and when the scan
   ends the visited set is the set of foreground pixels of the mask. *)
C24_VisitedPartitionsForeground ==
    /\ [](pc = "done" => visited = Foreground)
    /\ [](pc = "filled" =>
            /\ Range(region) = ComponentOf(seed)
            /\ Cardinality(Range(region)) = Len(region))
    /\ [][ pc # "done" =>
             /\ visited \subseteq visited'
             /\ (visited' # visited \/ (pc = "flood" /\ region' # region)) =>
                    \E p \in Foreground \ visited :
                        /\ visited' = visited \cup {p}
                        /\ region' = Append(region, p)
                        /\ p \notin Range(region)
             /\ (pc = "scan" /\ pc' = "flood") =>
                    /\ seed' \in Roots
                    /\ ComponentOf(seed') \cap visited = {} ]_vars

\* the scan of a mask with a component of three pixels and another
\* component has ended
C24_Witness ==
    /\ pc = "done"
    /\ Cardinality(Roots) >= 2
    /\ \E s \in Roots : Cardinality(ComponentOf(s)) >= 3
    /\ Cardinality(visited) >= 4

\* what the loop of floodFill still has to do: four pushes for every
\* foreground pixel not yet visited, and the entries on the stack
FloodMeasure == 4 * Cardinality(Foreground \ visited) + Len(stack)

(* C25: floodFill terminates on every finite mask and every seed: each loop
   iteration pops one stack entry; an entry that is taken is marked visited,
   was not visited before, and pushes exactly four neighbours; every other
   entry pushes nothing.  So each iteration lowers
   4 * (unvisited foreground pixels) + (stack length) by one, and a call that
   has started returns. *)
C25_FloodFillTerminates ==
    /\ [][ (pc = "flood" /\ stack # <<>>) =>
             /\ FloodMeasure' = FloodMeasure - 1
             /\ \/ /\ visited' = visited
                   /\ stack' = SubSeq(stack, 1, Len(stack) - 1)
                \/ /\ Cardinality(visited') = Cardinality(visited) + 1
                   /\ Len(stack') = Len(stack) - 1 + 4
                   /\ SubSeq(stack', 1, Len(stack) - 1) = SubSeq(stack, 1, Len(stack) - 1) ]_vars
    /\ (pc = "flood") ~> (pc = "filled")

\* a call that took three pixels, with another component already visited,
\* has returned
C25_Witness ==
    /\ pc = "filled"
    /\ Len(region) >= 3
    /\ visited0 # {}
    /\ stack = <<>>

(* C26: if the shutdown flag is never set and every processing call
   eventually completes, every packet accepted by FrameQueue.enqueue is
   eventually either handed to the processing stage or evicted by a later
   enqueue; no packet remains pending forever. *)
C26_NoPacketPendingForever ==
    ([]~isShuttingDown) =>
        \A q \in Packets :
            (q \in Range(queue)) ~> (q \in Range(handed) \/ q \in evicted)

\* a packet that had to wait behind another one has been handed over, with
\* the shutdown flag never set
C26_Witness ==
    /\ ~isShuttingDown
    /\ Len(handed) >= 3
    /\ evicted # {}
    /\ queue = <<>>
    /\ inFlight = {}

\* s holds no packet twice
NoRepeats(s) == Cardinality(Range(s)) = Len(s)

(* C27: each packet accepted by the FrameQueue is handed to the processing
   stage at most once: no packet occurs twice in the hand-over record or in
   the pending queue, a packet handed over or evicted is not pending; a
   packet leaves the pending queue only by being handed over or evicted; and
   a packet whose processing failed is neither put back in the queue nor
   handed over again. *)
C27_HandedAtMostOnce ==
    /\ [](/\ NoRepeats(handed)
          /\ NoRepeats(queue)
          /\ Range(queue) \cap (Range(handed) \cup evicted) = {}
          /\ failed \subseteq Range(handed) \ inFlight)
    /\ [][ /\ \A p \in Range(queue) \ Range(queue') :
                  \/ (p \in inFlight' /\ handed' = Append(handed, p))
                  \/ (p \in evicted' /\ handed' = handed)
           /\ \A p \in failed' :
                  /\ p \notin Range(queue')
                  /\ p \notin inFlight'
                  /\ Len(handed') > Len(handed) => handed'[Len(handed')] # p ]_vars

\* a packet failed, and the packets behind it were handed over or evicted
C27_Witness ==
    /\ failed # {}
    /\ evicted # {}
    /\ Len(handed) >= 3
    /\ \E p \in failed : p # handed[Len(handed)]

(* C28: filterOverlappingRegions returns a sub-list of its input: the output
   is the input with some positions left out, so every output region is an
   input region with unchanged fields, no region appears more often than in
   the input, and the output regions keep their relative input order. *)
C28_OutputIsSubList ==
    pc = "filtered" =>
        \E K \in SUBSET (1..Len(regions)) : result = Restrict(regions, K, 1)

\* of two different regions the second was removed
C28_Witness ==
    /\ pc = "filtered"
    /\ Len(regions) = 2
    /\ regions[1] # regions[2]
    /\ result = <<regions[1]>>

\* this step is the 'error' handler running
ErrorReceived == streamLive /\ ~streamLive' /\ ends' = ends

\* this step is the 'end' handler running
EndReceived == streamLive /\ ~streamLive' /\ ends' = ends + 1

(* C29: startStreamProcessing makes at most `retries` connection attempts in
   response to stream errors: an 'error' event received (before shutdown)
   while attempt < retries - 1 increments attempt and schedules exactly one
   reconnect, connecting nothing itself; the 'error' event received with
   attempt = retries - 1 (or with no retries at all) exits the process with
   code 1 without reconnecting.  So attempt never passes retries - 1, and
   every connection after the first was scheduled by one 'error' or one
   'end' event. *)
C29_RetriesBoundErrorReconnects ==
    /\ [](/\ attempt <= Max(retries - 1, 0)
          /\ connects + timers <= 1 + attempt + ends)
    /\ [][ (ErrorReceived /\ ~isShuttingDown) =>
             /\ connects' = connects
             /\ attempt < retries - 1 =>
                    /\ attempt' = attempt + 1
                    /\ timers' = timers + 1
                    /\ exitCode' = -1
             /\ attempt >= retries - 1 =>
                    /\ exitCode' = 1
                    /\ timers' = timers
                    /\ attempt' = attempt ]_vars

\* with retries = 3 and no 'end' event, the third connection failed and the
\* process exited with code 1
C29_Witness ==
    /\ retries = 3
    /\ connects = 3
    /\ attempt = 2
    /\ ends = 0
    /\ ~streamLive
    /\ ~isShuttingDown
    /\ exitCode = 1

(* C30: once the shutdown flag is set, startStreamProcessing starts no new
   stream connection: 'error' and 'end' events received afterwards neither
   schedule a reconnect nor exit the process, and a reconnect timer scheduled
   before shutdown that fires after it returns without connecting.  The only
   exits left are cleanup's own process.exit(0) and the process.exit(1) of
   the uncaught-exception handler. *)
C30_NoConnectionAfterShutdown ==
    [][ isShuttingDown =>
          /\ isShuttingDown'
          /\ connects' = connects
          /\ (streamLive' => streamLive)
          /\ timers' <= timers
          /\ attempt' = attempt
          /\ (exitCode' \in {exitCode, 0} \/ cleanupCalls' # cleanupCalls)
          /\ (ErrorReceived \/ EndReceived) => (timers' = timers /\ exitCode' = exitCode) ]_vars

\* an 'error' scheduled a reconnect, shutdown began, and the timer fired
\* without connecting
C30_Witness ==
    /\ isShuttingDown
    /\ exitCode = -1
    /\ attempt = 1
    /\ ends = 0
    /\ connects = 1
    /\ timers = 0
    /\ ~streamLive

-----------------------------------------------------------------------------
(* C31: between FrameQueue operations, if the processing flag is false and
   the shutdown flag is not set then the pending queue is empty; a non-empty
   queue always has an active drain loop (a processing call that has not
   settled or a scheduled processQueue callback), so no enqueue leaves a
   packet stranded. *)
C31_NoStrandedPacket ==
    ~isShuttingDown =>
        /\ ~processing => queue = <<>>
        /\ queue # <<>> => (inFlight # {} \/ immediates > 0)

\* packets wait behind one in flight after an earlier drain loop has ended
\* (the flag went back to false) and a later enqueue has started a new one
C31_Witness ==
    /\ ~isShuttingDown
    /\ processing
    /\ queue # <<>>
    /\ inFlight = {3}
    /\ handed = <<1, 3>>

-----------------------------------------------------------------------------
(* C32: filterOverlappingRegions (utils/regionUtils) is idempotent: applied
   to its own output it returns that output unchanged, so the second
   application detectPeople and detectVehicles make on the result of
   findRegions removes nothing. *)
C32_FilterIsIdempotent ==
    (pc = "filtered" /\ variant = "regionUtils") =>
        filterOverlappingRegions(variant, result) = result

\* the output has two different regions that overlap (by no more than half
\* of the smaller one), so the second application has a pair to compare
C32_Witness ==
    /\ pc = "filtered"
    /\ variant = "regionUtils"
    /\ \E i, j \in 1..Len(result) :
           /\ i < j
           /\ result[i] # result[j]
           /\ IntersectionArea(result[i], result[j]) > 0

-----------------------------------------------------------------------------
(* C33: findRegions returns its regions ordered by the row-major index of
   the first-scanned pixel of each component: the returned list can be
   matched, element by element, to components whose first pixels (topmost
   row first, then leftmost column) strictly increase along the list. *)
C33_ReturnedInRasterOrder ==
    pc = "done" =>
        \E f \in [1..Len(result) -> Roots] :
            /\ \A i, j \in 1..Len(result) : i < j => f[i] < f[j]
            /\ \A i \in 1..Len(result) : IsBoxOf(Box(result[i]), ComponentOf(f[i]))

\* two components with different boxes have both been returned
C33_Witness ==
    /\ pc = "done"
    /\ Len(result) >= 2
    /\ Box(result[1]) # Box(result[2])
    /\ Cardinality(Roots) >= 2

-----------------------------------------------------------------------------
(* C34: every region findRegions collects and returns lies inside the mask:
   x, y, width and height are finite integers with 0 <= x, 0 <= y,
   x + width <= maskWidth - 1 and y + height <= maskHeight - 1. *)
C34_RegionsInsideMask ==
    pc \in {"scan", "flood", "filled", "done"} =>
        \A r \in Range(regions) \cup Range(result) :
            /\ r.x \in Nat
            /\ r.y \in Nat
            /\ r.width \in Nat
            /\ r.height \in Nat
            /\ r.x + r.width <= width - 1
            /\ r.y + r.height <= height - 1

\* a returned region reaches the last column and the last row of the mask
C34_Witness ==
    /\ pc = "done"
    /\ \E r \in Range(result) :
           /\ r.width > 0
           /\ r.height > 0
           /\ r.x + r.width = width - 1
           /\ r.y + r.height = height - 1

-----------------------------------------------------------------------------
(* C35: for every region list, each region kept by the all-pairs
   filterOverlappingRegions (utils/image-processing) is also kept by the
   keep-first filterOverlappingRegions (utils/regionUtils): the all-pairs
   output is the keep-first output with some positions left out. *)
C35_AllPairsKeptAreKeptFirst ==
    pc = "filtered" =>
        LET allPairs == IF variant = "imageProcessing" THEN result
                        ELSE filterOverlappingRegions("imageProcessing", regions)
            keepFirst == IF variant = "regionUtils" THEN result
                         ELSE filterOverlappingRegions("regionUtils", regions)
        IN  \E K \in SUBSET (1..Len(keepFirst)) : allPairs = Restrict(keepFirst, K, 1)

\* the all-pairs filter has kept two regions that overlap, and the keep-first
\* filter keeps them too
C35_Witness ==
    /\ pc = "filtered"
    /\ variant = "imageProcessing"
    /\ \E i, j \in 1..Len(result) :
           /\ i < j
           /\ IntersectionArea(result[i], result[j]) > 0
    /\ \A i \in 1..Len(result) : result[i] \in Range(filterKeepFirst(regions))

-----------------------------------------------------------------------------
\* the connections that can still deliver frames: neither the command nor
\* its stream has reported a failure or the end
LiveCommands ==
    {i \in 1..Len(commands) : ~commands[i].settled /\ ~commands[i].streamError}

(* C36: in StreamProcessor a single stream failure leads to at most one
   scheduled reconnect, so at most one ffmpeg connection is live or pending
   (scheduled by a reconnect timer that has not run yet) at any time, also
   when several handlers fire for the same failure before the timer runs. *)
C36_AtMostOneLiveOrPending ==
    Cardinality(LiveCommands) + reconnects <= 1

-----------------------------------------------------------------------------
(* C37: cleanup performs its teardown at most once however many times it is
   invoked (SIGINT, SIGTERM, uncaught exception, in any order, also while an
   earlier invocation is suspended in its teardown): only an invocation that
   finds the shutdown flag false goes on, and it sets the flag; the flag,
   once true, is never set back to false. *)
C37_TeardownAtMostOnce ==
    /\ [](teardowns <= 1)
    /\ [](isShuttingDown <=> teardowns = 1)
    /\ [][ /\ isShuttingDown => isShuttingDown'
           /\ teardowns' # teardowns => (~isShuttingDown /\ isShuttingDown') ]_vars

\* cleanup has been invoked three times while the process was still running:
\* the first invocation is suspended in its teardown, the others returned
C37_Witness ==
    /\ cleanupCalls = 3
    /\ teardowns = 1
    /\ isShuttingDown
    /\ exitCode = -1
    /\ connects = 1

-----------------------------------------------------------------------------
(* C38: the two position encodings agree for the mask's declared width: for
   every in-bounds (x, y), getBoundingBox decodes the linear index
   y*width + x back to (x, y); and floodFill takes no position computed from
   out-of-bounds coordinates: a popped coordinate outside the mask changes
   neither the visited set nor the region, every position marked visited and
   collected was computed from the in-bounds coordinate just popped, and the
   positions returned are indices of the mask. *)
C38_PositionEncodingsAgree ==
    /\ [](pc = "done" =>
            \A x \in 0..(width - 1), y \in 0..(height - 1) :
                LET b == getBoundingBox({PosOf([x |-> x, y |-> y])}, width)
                IN  b.x = x /\ b.y = y)
    /\ [](pc = "filled" => Range(region) \subseteq 0..(width * height - 1))
    /\ [][ (pc = "flood" /\ stack # <<>>) =>
             LET c == Top
                 inside == 0 <= c.x /\ c.x <= width - 1 /\ 0 <= c.y /\ c.y <= height - 1
                 pos == c.y * width + c.x
             IN  /\ ~inside => (visited' = visited /\ region' = region)
                 /\ (visited' # visited \/ region' # region) =>
                        /\ visited' = visited \cup {pos}
                        /\ region' = Append(region, pos)
                        /\ getBoundingBox({pos}, width).x = c.x
                        /\ getBoundingBox({pos}, width).y = c.y ]_vars

\* the coordinate popped lies right of the last column, and the index
\* computed from it is that of an unvisited foreground pixel of the next row
C38_Witness ==
    /\ pc = "flood"
    /\ stack # <<>>
    /\ Top.x = width
    /\ Top.y >= 0
    /\ DataAt(PosOf(Top)) = 0
    /\ PosOf(Top) \notin visited

====
